---- MODULE Spec2Model ----
(***************************************************************************)
(* Model of the Zonaprop scraper: the pagination crawl of src/scraper.py   *)
(* (Scraper.scrap_website, get_estates_quantity, parse_estate,             *)
(* parse_features) and the detail resolution and row export of             *)
(* zonaprop_scraper/zonaprop_excel_export.py.                              *)
(*                                                                         *)
(* Texts are sequences of one-character strings.  Two non-ASCII characters *)
(* of the source are written with ASCII stand-ins: "^2" is the superscript *)
(* two of the area unit and "n~" is the n with tilde of the bathroom unit. *)
(* A Python value is a tagged record: None, a number (a reduced fraction,  *)
(* so that float division and decimal commas keep their value) or a text.  *)
(***************************************************************************)
EXTENDS Integers, Sequences, FiniteSets, TLC

\* parse_listing_detail: the page being resolved, the three extractors'
\* records, the merged record and the position in the function
VARIABLES soup, areas_jsonld, areas_icons, areas_labels, areas, dpc

detail_vars == <<soup, areas_jsonld, areas_icons, areas_labels, areas, dpc>>

\* parse_features: the text of the call, the matches of its pattern, the loop
\* position, the function's two local mappings, the mappings the calls made
\* so far returned, and the position in the function
VARIABLES ftext, fmatches, fpos, features_appearance, features, freturned, fpc

features_vars == <<ftext, fmatches, fpos, features_appearance, features, freturned, fpc>>

\* export_search_to_excel and Scraper.scrap_website:
\*   web             the site: what each listing page and detail page holds
\*   max_listings    the option of the run (None or a limit)
\*   pc              the position in the run
\*   page_number, estates, estates_scraped, estates_quantity
\*                   the locals of scrap_website
\*   cards, card_index, rows   the locals of export_search_to_excel
\*   inflight        the fetches the browser has been asked and not returned
\*   fetch_log       every fetch asked of the browser, in order
VARIABLES web, max_listings, pc, page_number, estates, estates_scraped,
          estates_quantity, cards, card_index, rows, inflight, fetch_log

crawl_vars == <<web, max_listings, pc, page_number, estates, estates_scraped,
                estates_quantity, cards, card_index, rows, inflight, fetch_log>>

vars == <<detail_vars, features_vars, crawl_vars>>

not_detail_vars == <<features_vars, crawl_vars>>

not_features_vars == <<detail_vars, crawl_vars>>

not_crawl_vars == <<detail_vars, features_vars>>

\* ------------------------------------------------------------------ bounds
\* largest area numeral written on a detail page or a card
MaxArea == 2

\* most feature tokens in one feature text
MaxTokens == 3

\* calls of parse_features made on one text
MaxCalls == 2

\* largest total a site of the export runs advertises
MaxTotal == 3

\* most cards on one listing page of the export runs
MaxPerPage == 2

\* largest max_listings option
MaxLimit == 2

\* the crawl is followed up to this page (a site that never delivers its
\* advertised total is crawled without end)
MaxPage == MaxTotal + 2

\* ---------------------------------------------------------- Python values
None == [t |-> "none"]

RECURSIVE Gcd(_, _)
Gcd(a, b) == IF b = 0 THEN a ELSE Gcd(b, a % b)

\* the float n/d, d > 0, n >= 0
Num(n, d) == LET g == Gcd(n, d) IN [t |-> "num", num |-> n \div g, den |-> d \div g]

Str(s) == [t |-> "str", s |-> s]

IsNone(v) == v.t = "none"

\* Python truth value of None, a number, a text, a dict, a list or a URL
\* text (a URL text is never empty)
Truthy(v) ==
    CASE v.t = "none" -> FALSE
      [] v.t = "num" -> v.num /= 0
      [] v.t = "str" -> Len(v.s) > 0
      [] v.t \in {"dict", "list"} -> Len(v.items) > 0
      [] v.t = "url" -> TRUE

\* Python `a or b`
PyOr(a, b) == IF Truthy(a) THEN a ELSE b

\* a > 0 for a number
Positive(v) == v.t = "num" /\ v.num > 0

\* a / b for numbers, b /= 0
PyDiv(a, b) == Num(a.num * b.den, a.den * b.num)

\* ------------------------------------------------------------------ texts
Digits == <<"0", "1", "2", "3", "4", "5", "6", "7", "8", "9">>

IsDigit(c) == \E i \in 1..10 : Digits[i] = c

DigitValue(c) == (CHOOSE i \in 1..10 : Digits[i] = c) - 1

IsSpace(c) == c \in {" ", "\n", "\t"}

\* str.strip()
RECURSIVE LStrip(_)
LStrip(s) == IF Len(s) > 0 /\ IsSpace(s[1]) THEN LStrip(Tail(s)) ELSE s

RECURSIVE RStrip(_)
RStrip(s) ==
    IF Len(s) > 0 /\ IsSpace(s[Len(s)]) THEN RStrip(SubSeq(s, 1, Len(s) - 1)) ELSE s

Strip(s) == LStrip(RStrip(s))

\* str.replace(c, r): every element c replaced by the text r
RECURSIVE Replace(_, _, _)
Replace(s, c, r) ==
    IF s = <<>> THEN <<>>
    ELSE (IF s[1] = c THEN r ELSE <<s[1]>>) \o Replace(Tail(s), c, r)

\* the decimal digits of n >= 0, as str(n) writes them
RECURSIVE IntText(_)
IntText(n) == IF n < 10 THEN <<Digits[n + 1]>> ELSE Append(IntText(n \div 10), Digits[(n % 10) + 1])

\* int(s) of a text of digits
RECURSIVE IntOf(_)
IntOf(s) ==
    IF s = <<>> THEN 0 ELSE 10 * IntOf(SubSeq(s, 1, Len(s) - 1)) + DigitValue(s[Len(s)])

\* the last position of the run of digits that starts at i (s[i] is a digit)
RECURSIVE DigitRunEnd(_, _)
DigitRunEnd(s, i) ==
    IF i < Len(s) /\ IsDigit(s[i + 1]) THEN DigitRunEnd(s, i + 1) ELSE i

\* the first position >= i that holds a digit, 0 when there is none
RECURSIVE NextDigit(_, _)
NextDigit(s, i) ==
    IF i > Len(s) THEN 0 ELSE IF IsDigit(s[i]) THEN i ELSE NextDigit(s, i + 1)

\* the end of the match of \d+(?:[\.,]\d+)* that starts at i (s[i] is a digit)
RECURSIVE GroupedEnd(_, _)
GroupedEnd(s, i) ==
    LET e == DigitRunEnd(s, i)
    IN  IF e + 2 <= Len(s) /\ s[e + 1] \in {".", ","} /\ IsDigit(s[e + 2])
        THEN GroupedEnd(s, e + 2)
        ELSE e

\* the number of elements of s equal to c
RECURSIVE Count(_, _)
Count(s, c) == IF s = <<>> THEN 0 ELSE (IF s[1] = c THEN 1 ELSE 0) + Count(Tail(s), c)

RECURSIVE Pow10(_)
Pow10(n) == IF n = 0 THEN 1 ELSE 10 * Pow10(n - 1)

\* float(s) of a text of digits with at most one decimal point inside it;
\* None stands for the ValueError of any other text
FloatOf(s) ==
    LET digits == Replace(s, ".", <<>>)
        dot    == IF Count(s, ".") = 1 THEN CHOOSE i \in 1..Len(s) : s[i] = "." ELSE 0
    IN  IF s = <<>> \/ \E i \in 1..Len(s) : ~(IsDigit(s[i]) \/ s[i] = ".") THEN None
        ELSE IF Count(s, ".") > 1 \/ digits = <<>> THEN None
        ELSE IF dot = 0 THEN Num(IntOf(s), 1)
        ELSE Num(IntOf(digits), Pow10(Len(s) - dot))

\* ------------------------------------------------------------ _clean_number
\* raw is None, a number or a text
CleanNumber(raw) ==
    IF IsNone(raw) THEN None
    ELSE
      LET s == Strip(IF raw.t = "num" THEN IntText(raw.num) ELSE raw.s)
          b == NextDigit(s, 1)
      IN  IF s = <<>> \/ b = 0 THEN None
          ELSE LET m == SubSeq(s, b, GroupedEnd(s, b))
               IN  FloatOf(Replace(Replace(m, ".", <<>>), ",", <<".">>))

\* ------------------------------------------------------------- more texts
UpperCase == <<"A", "B", "C", "D", "E", "F", "G", "H", "I", "J", "K", "L", "M",
               "N", "O", "P", "Q", "R", "S", "T", "U", "V", "W", "X", "Y", "Z", "N~">>

LowerCase == <<"a", "b", "c", "d", "e", "f", "g", "h", "i", "j", "k", "l", "m",
               "n", "o", "p", "q", "r", "s", "t", "u", "v", "w", "x", "y", "z", "n~">>

LowerOf ==
    [c \in {UpperCase[k] : k \in 1..Len(UpperCase)} |->
        LowerCase[CHOOSE k \in 1..Len(UpperCase) : UpperCase[k] = c]]

\* str.lower()
Lower(s) == [i \in 1..Len(s) |-> IF s[i] \in DOMAIN LowerOf THEN LowerOf[s[i]] ELSE s[i]]

\* p occurs in s at position i
MatchAt(s, i, p) == i + Len(p) - 1 <= Len(s) /\ SubSeq(s, i, i + Len(p) - 1) = p

\* Python `p in s` for texts
Contains(s, p) == \E i \in 1..(Len(s) + 1) : MatchAt(s, i, p)

StartsWith(s, p) == MatchAt(s, 1, p)

\* the first position >= i that holds no whitespace (Len(s) + 1 when none)
RECURSIVE SkipSpaces(_, _)
SkipSpaces(s, i) == IF i <= Len(s) /\ IsSpace(s[i]) THEN SkipSpaces(s, i + 1) ELSE i

SquareMeterUnits == {<<"m", "^2">>, <<"m", "2">>}

\* re.search(r"(\d+(?:[\.,]\d+)*)\s*(m²|m2)", txt, IGNORECASE): group 1 of the
\* leftmost match, None when nothing matches.  The group is greedy and a unit
\* starts with a letter, so a match that starts at i ends its group at
\* GroupedEnd(txt, i).
RECURSIVE AreaTokenFrom(_, _)
AreaTokenFrom(txt, i) ==
    LET b == NextDigit(txt, i)
    IN  IF b = 0 THEN None
        ELSE LET e == GroupedEnd(txt, b)
                 u == SkipSpaces(txt, e + 1)
             IN  IF \E unit \in SquareMeterUnits :
                        u + 1 <= Len(txt) /\ Lower(SubSeq(txt, u, u + 1)) = unit
                 THEN Str(SubSeq(txt, b, e))
                 ELSE AreaTokenFrom(txt, b + 1)

\* ------------------------------------------------------------ area records
NoAreas == [m2_total |-> None, m2_covered |-> None, m2_land |-> None]

AreaFields == {"m2_total", "m2_covered", "m2_land"}

AllFilled(out) == \A f \in AreaFields : ~IsNone(out[f])

\* ------------------------------ _parse_detail_areas_from_icon_features
\* li: [icon |-> BOOLEAN, classes |-> set of class names, txt |-> text]
IconField(classes) ==
    CASE "icon-scubierta" \in classes -> "m2_covered"
      [] "icon-stotal" \in classes -> "m2_total"
      [] "icon-sterreno" \in classes -> "m2_land"
      [] OTHER -> "none"

IconStep(out, li) ==
    LET val == CleanNumber(Str(li.txt))
        f   == IconField(li.classes)
    IN  IF ~li.icon \/ IsNone(val) \/ f = "none" THEN out
        ELSE [out EXCEPT ![f] = PyOr(out[f], val)]

RECURSIVE IconLoop(_, _, _)
IconLoop(out, lis, i) ==
    IF i > Len(lis) THEN out
    ELSE LET nxt == IconStep(out, lis[i])
             \* the break test is skipped by the two `continue`s
             tested == lis[i].icon /\ ~IsNone(CleanNumber(Str(lis[i].txt)))
         IN  IF tested /\ AllFilled(nxt) THEN nxt ELSE IconLoop(nxt, lis, i + 1)

ParseDetailAreasFromIconFeatures(page) == IconLoop(NoAreas, page.icons, 1)

\* ------------------------------------------ _parse_detail_areas_from_html
LabelMap == <<
    [lbl |-> <<"s", "u", "p", "e", "r", "f", "i", "c", "i", "e", " ", "t", "o", "t", "a", "l">>,
     key |-> "m2_total"],
    [lbl |-> <<"s", "u", "p", "e", "r", "f", "i", "c", "i", "e", " ", "c", "u", "b", "i", "e", "r", "t", "a">>,
     key |-> "m2_covered"],
    [lbl |-> <<"s", "u", "p", "e", "r", "f", "i", "c", "i", "e", " ", "d", "e", "l", " ", "t", "e", "r", "r", "e", "n", "o">>,
     key |-> "m2_land"],
    [lbl |-> <<"s", "u", "p", "e", "r", "f", "i", "c", "i", "e", " ", "t", "e", "r", "r", "e", "n", "o">>,
     key |-> "m2_land"],
    [lbl |-> <<"t", "e", "r", "r", "e", "n", "o">>, key |-> "m2_land"],
    [lbl |-> <<"l", "o", "t", "e">>, key |-> "m2_land"] >>

\* low is txt.lower() and m is group 1 of the area pattern in txt (or None)
RECURSIVE LabelLoop(_, _, _, _)
LabelLoop(out, low, m, k) ==
    IF k > Len(LabelMap) THEN out
    ELSE LET e == LabelMap[k]
         IN  IF ~IsNone(out[e.key]) \/ ~Contains(low, e.lbl) \/ IsNone(m)
             THEN LabelLoop(out, low, m, k + 1)
             ELSE LabelLoop([out EXCEPT ![e.key] = CleanNumber(m)], low, m, k + 1)

RECURSIVE CandidateLoop(_, _, _)
CandidateLoop(out, els, i) ==
    IF i > Len(els) THEN out
    ELSE IF Strip(els[i]) = <<>> THEN CandidateLoop(out, els, i + 1)
    ELSE LET txt == Strip(els[i])
             nxt == LabelLoop(out, Lower(txt), AreaTokenFrom(txt, 1), 1)
         IN  IF AllFilled(nxt) THEN nxt ELSE CandidateLoop(nxt, els, i + 1)

ParseDetailAreasFromHtml(page) == CandidateLoop(NoAreas, page.blocks, 1)

\* ------------------------------------------------------------------- JSON
\* json.loads values: None, Num, Str, and
JDict(items) == [t |-> "dict", items |-> items]   \* items: <<[k |-> key, v |-> value], ...>>

JList(items) == [t |-> "list", items |-> items]

HasKey(d, key) == \E i \in 1..Len(d.items) : d.items[i].k = key

\* d.get(key)
JGet(d, key) ==
    IF HasKey(d, key) THEN d.items[CHOOSE i \in 1..Len(d.items) : d.items[i].k = key].v
    ELSE None

\* _walk_json: the dicts of obj in the order the generator yields them
RECURSIVE WalkJson(_)
WalkJson(obj) ==
    LET kids == IF obj.t = "dict" THEN [i \in 1..Len(obj.items) |-> obj.items[i].v]
                ELSE IF obj.t = "list" THEN obj.items ELSE <<>>
        Below[i \in 0..Len(kids)] == IF i = 0 THEN <<>> ELSE Below[i - 1] \o WalkJson(kids[i])
    IN  (IF obj.t = "dict" THEN <<obj>> ELSE <<>>) \o Below[Len(kids)]

\* ---------------------------------------- _parse_detail_areas_from_jsonld
KeyTargets == << [key |-> "floorSize", target |-> "m2_covered"],
                 [key |-> "lotSize", target |-> "m2_land"],
                 [key |-> "area", target |-> "m2_total"] >>

RECURSIVE JsonKeyLoop(_, _, _)
JsonKeyLoop(out, d, k) ==
    IF k > Len(KeyTargets) THEN out
    ELSE LET key    == KeyTargets[k].key
             target == KeyTargets[k].target
             v      == JGet(d, key)
             nxt    == IF ~HasKey(d, key) \/ ~IsNone(out[target]) THEN out
                       ELSE IF v.t = "dict"
                       THEN [out EXCEPT ![target] =
                                CleanNumber(PyOr(JGet(v, "value"), JGet(v, "@value")))]
                       ELSE IF v.t \in {"num", "str"}
                       THEN [out EXCEPT ![target] = CleanNumber(v)]
                       ELSE out
         IN  JsonKeyLoop(nxt, d, k + 1)

Superficie == <<"s", "u", "p", "e", "r", "f", "i", "c", "i", "e">>
Total == <<"t", "o", "t", "a", "l">>
Cubierta == <<"c", "u", "b", "i", "e", "r", "t", "a">>
Cubiertos == <<"c", "u", "b", "i", "e", "r", "t", "o", "s">>
Terreno == <<"t", "e", "r", "r", "e", "n", "o">>
Lote == <<"l", "o", "t", "e">>

AdditionalPropertyStep(out, item) ==
    IF item.t /= "dict" THEN out
    ELSE LET nm   == PyOr(JGet(item, "name"), Str(<<>>))
             name == Lower(Strip(nm.s))
             val  == JGet(item, "value")
             o1   == IF IsNone(out.m2_total) /\ Contains(name, Superficie) /\ Contains(name, Total)
                     THEN [out EXCEPT !.m2_total = CleanNumber(val)] ELSE out
             o2   == IF IsNone(o1.m2_covered) /\ (Contains(name, Cubierta) \/ Contains(name, Cubiertos))
                     THEN [o1 EXCEPT !.m2_covered = CleanNumber(val)] ELSE o1
         IN  IF IsNone(o2.m2_land) /\ (Contains(name, Terreno) \/ Contains(name, Lote))
             THEN [o2 EXCEPT !.m2_land = CleanNumber(val)] ELSE o2

RECURSIVE AdditionalPropertyLoop(_, _, _)
AdditionalPropertyLoop(out, ap, i) ==
    IF i > Len(ap) THEN out
    ELSE AdditionalPropertyLoop(AdditionalPropertyStep(out, ap[i]), ap, i + 1)

JsonDictStep(out, d) ==
    LET o1 == JsonKeyLoop(out, d, 1)
        ap == JGet(d, "additionalProperty")
    IN  IF ap.t = "list" THEN AdditionalPropertyLoop(o1, ap.items, 1) ELSE o1

RECURSIVE JsonDictLoop(_, _, _)
JsonDictLoop(out, ds, i) ==
    IF i > Len(ds) THEN out ELSE JsonDictLoop(JsonDictStep(out, ds[i]), ds, i + 1)

ParseDetailAreasFromJsonld(blocks) == JsonDictLoop(NoAreas, WalkJson(JList(blocks)), 1)

\* ----------------------------------- parse_listing_detail, lines 211-215
MergeAreas(icons, labels, jsonld) ==
    [f \in AreaFields |-> PyOr(PyOr(icons[f], labels[f]), jsonld[f])]

\* ------------------------------------------------- detail pages (inputs)
SquareMeters == <<" ", "m", "^2">>

\* the numerals a page writes: 0..MaxArea, a decimal comma, a grouping dot
Numerals ==
    {IntText(a) : a \in 0..MaxArea} \cup {<<"1", ",", "5">>, <<"1", ".", "0", "0", "0">>}

IconClasses == {"icon-stotal", "icon-scubierta", "icon-sterreno"}

IconItem(class, n) == [icon |-> TRUE, classes |-> {class, "icon"}, txt |-> n \o SquareMeters]

\* li.icon-feature lists: one item per class (or none), then lists whose items
\* repeat a class, lack the <i>, carry another icon or carry no number
IconLists ==
    {<<>>}
    \cup {<<IconItem(c, n)>> : c \in IconClasses, n \in Numerals}
    \cup {<<IconItem(c, <<"0">>), IconItem(c, IntText(MaxArea))>> : c \in IconClasses}
    \cup {<<IconItem("icon-stotal", IntText(a)), IconItem("icon-scubierta", IntText(a)),
            IconItem("icon-sterreno", IntText(a)), IconItem("icon-stotal", IntText(MaxArea))>> :
            a \in 0..MaxArea}
    \cup {<<[icon |-> FALSE, classes |-> {}, txt |-> <<"1">> \o SquareMeters],
            [icon |-> TRUE, classes |-> {"icon-ambiente"}, txt |-> <<"3", " ", "a", "m", "b", ".">>],
            [icon |-> TRUE, classes |-> {"icon-stotal"}, txt |-> <<"s", "/", "d">>]>>}

LabelPhrases == {
    <<"S", "u", "p", "e", "r", "f", "i", "c", "i", "e", " ", "t", "o", "t", "a", "l">>,
    <<"S", "u", "p", "e", "r", "f", "i", "c", "i", "e", " ", "c", "u", "b", "i", "e", "r", "t", "a">>,
    <<"L", "o", "t", "e">> }

\* li/div/section texts: a label and an area, an area without a label, a
\* label without an area, an empty block
BlockLists ==
    {<<>>}
    \cup {<<l \o <<":", " ">> \o n \o SquareMeters>> :
            l \in LabelPhrases, n \in {<<"0">>, IntText(MaxArea)}}
    \cup {<< <<" ">>, <<"2">> \o SquareMeters,
             <<"S", "u", "p", "e", "r", "f", "i", "c", "i", "e", " ", "t", "o", "t", "a", "l">>,
             <<"t", "e", "r", "r", "e", "n", "o", " ", "0", "m", "2">> >>}

JArea(key, v) == JDict(<<[k |-> "@type", v |-> Str(<<"H", "o", "u", "s", "e">>)], [k |-> key, v |-> v]>>)

JValues ==
    {Num(0, 1), Str(IntText(MaxArea) \o SquareMeters),
     JDict(<<[k |-> "value", v |-> Str(<<"0">>)]>>),
     JDict(<<[k |-> "value", v |-> Num(0, 1)], [k |-> "@value", v |-> Str(IntText(MaxArea))]>>)}

\* application/ld+json blocks
JsonBlocks ==
    {<<>>}
    \cup {<<JArea(KeyTargets[k].key, v)>> : k \in 1..3, v \in JValues}
    \cup {<<JDict(<<[k |-> "@graph", v |-> JList(<<JArea("floorSize", None),
                                                   JArea("floorSize", Num(MaxArea, 1))>>)]>>)>>}
    \cup {<<JDict(<<[k |-> "additionalProperty", v |-> JList(<<
              Str(<<"x">>),
              JDict(<<[k |-> "name", v |-> Str(<<"S", "u", "p", "e", "r", "f", "i", "c", "i", "e", " ", "T", "o", "t", "a", "l">>)],
                      [k |-> "value", v |-> Str(n)]>>),
              JDict(<<[k |-> "name", v |-> Str(<<"M", "e", "t", "r", "o", "s", " ", "c", "u", "b", "i", "e", "r", "t", "o", "s">>)],
                      [k |-> "value", v |-> Num(0, 1)]>>),
              JDict(<<[k |-> "value", v |-> Num(1, 1)]>>) >>)]>>)>> : n \in {<<"0">>, IntText(MaxArea)}}

\* --------------------------------------------- parse_listing_detail, steps
NoSoup == [title |-> None, icons |-> <<>>, blocks |-> <<>>, jsonld |-> <<>>]

DetailIdle ==
    /\ soup = NoSoup
    /\ areas_jsonld = NoAreas /\ areas_icons = NoAreas /\ areas_labels = NoAreas
    /\ areas = NoAreas
    /\ dpc = "idle"

\* line 199: the page is parsed; any page of the input sets
DetailInit ==
    /\ soup \in [title : {None}, icons : IconLists, blocks : BlockLists, jsonld : JsonBlocks]
    /\ areas_jsonld = NoAreas /\ areas_icons = NoAreas /\ areas_labels = NoAreas
    /\ areas = NoAreas
    /\ dpc = "jsonld"

\* line 208
ExtractJsonld ==
    /\ dpc = "jsonld"
    /\ areas_jsonld' = ParseDetailAreasFromJsonld(soup.jsonld)
    /\ dpc' = "icons"
    /\ UNCHANGED <<soup, areas_icons, areas_labels, areas>>
    /\ UNCHANGED not_detail_vars

\* line 209
ExtractIcons ==
    /\ dpc = "icons"
    /\ areas_icons' = ParseDetailAreasFromIconFeatures(soup)
    /\ dpc' = "labels"
    /\ UNCHANGED <<soup, areas_jsonld, areas_labels, areas>>
    /\ UNCHANGED not_detail_vars

\* line 210
ExtractLabels ==
    /\ dpc = "labels"
    /\ areas_labels' = ParseDetailAreasFromHtml(soup)
    /\ dpc' = "merge"
    /\ UNCHANGED <<soup, areas_jsonld, areas_icons, areas>>
    /\ UNCHANGED not_detail_vars

\* lines 211-215
MergeDetail ==
    /\ dpc = "merge"
    /\ areas' = MergeAreas(areas_icons, areas_labels, areas_jsonld)
    /\ dpc' = "merged"
    /\ UNCHANGED <<soup, areas_jsonld, areas_icons, areas_labels>>
    /\ UNCHANGED not_detail_vars

\* ------------------------------------------------- Scraper.parse_features
\* the alternatives of the unit group and of the qualifier group, in the
\* pattern's order: a literal and an optional last character ("" for none)
UnitAlternatives == <<
    [lit |-> <<"m", "^2">>, opt |-> ""],
    [lit |-> <<"m", "2">>, opt |-> ""],
    [lit |-> <<"a", "m", "b">>, opt |-> "."],
    [lit |-> <<"d", "o", "r", "m">>, opt |-> "."],
    [lit |-> <<"b", "a", "n~", "o">>, opt |-> "s"],
    [lit |-> <<"b", "a", "n~", "o">>, opt |-> ""],
    [lit |-> <<"c", "o", "c", "h">>, opt |-> "."] >>

QualifierAlternatives == <<
    [lit |-> <<"t", "o", "t">>, opt |-> "."],
    [lit |-> <<"t", "o", "t", "a", "l", "e", "s">>, opt |-> ""],
    [lit |-> <<"c", "u", "b">>, opt |-> "."],
    [lit |-> <<"c", "u", "b", "i", "e", "r", "t", "o", "s">>, opt |-> ""],
    [lit |-> <<"t", "e", "r", "r">>, opt |-> "."],
    [lit |-> <<"t", "e", "r", "r", "e", "n", "o">>, opt |-> ""] >>

\* the last position of the first alternative that matches low at i, 0 when
\* none does (what follows a group is optional, so the first one stands)
RECURSIVE AlternativeEnd(_, _, _, _)
AlternativeEnd(low, i, alts, k) ==
    IF k > Len(alts) THEN 0
    ELSE IF MatchAt(low, i, alts[k].lit)
    THEN LET e == i + Len(alts[k].lit) - 1
         IN  IF alts[k].opt /= "" /\ e < Len(low) /\ low[e + 1] = alts[k].opt THEN e + 1 ELSE e
    ELSE AlternativeEnd(low, i, alts, k + 1)

\* the match of the pattern that starts at digit position b:
\* [ok, value, unit, qual, last]
FeatureMatchAt(s, low, b) ==
    LET e  == GroupedEnd(s, b)
        u  == SkipSpaces(s, e + 1)
        ue == AlternativeEnd(low, u, UnitAlternatives, 1)
        q  == SkipSpaces(s, ue + 1)
        qe == AlternativeEnd(low, q, QualifierAlternatives, 1)
    IN  IF ue = 0 THEN [ok |-> FALSE]
        ELSE [ok |-> TRUE, value |-> SubSeq(s, b, e), unit |-> SubSeq(s, u, ue),
              qual |-> IF qe = 0 THEN <<>> ELSE SubSeq(s, q, qe),
              last |-> IF qe = 0 THEN ue ELSE qe]

\* pattern.findall(text) from position i on: the (value, unit, qualifier)
\* groups of the non-overlapping matches, left to right
RECURSIVE FindAllFeatures(_, _, _)
FindAllFeatures(s, low, i) ==
    LET b == NextDigit(s, i)
    IN  IF b = 0 THEN <<>>
        ELSE LET m == FeatureMatchAt(s, low, b)
             IN  IF m.ok
                 THEN <<[value |-> m.value, unit |-> m.unit, qual |-> m.qual]>>
                      \o FindAllFeatures(s, low, m.last + 1)
                 ELSE FindAllFeatures(s, low, b + 1)

\* str.rstrip('.')
RECURSIVE RStripDots(_)
RStripDots(s) ==
    IF Len(s) > 0 /\ s[Len(s)] = "." THEN RStripDots(SubSeq(s, 1, Len(s) - 1)) ELSE s

\* normalize_number, lines 123-127
NormalizeNumber(raw) == Replace(Replace(Strip(raw), ".", <<>>), ",", <<".">>)

\* normalize_unit, lines 129-143
NormalizeUnit(raw) ==
    LET r == RStripDots(Lower(Strip(raw)))
    IN  CASE r \in {<<"m", "^2">>, <<"m", "2">>} -> <<"m", "^2">>
          [] r \in {<<"a", "m", "b">>, <<"a", "m", "b", "s">>} -> <<"a", "m", "b">>
          [] r \in {<<"d", "o", "r", "m">>, <<"d", "o", "r", "m", "s">>} -> <<"d", "o", "r", "m">>
          [] r \in {<<"b", "a", "n~", "o">>, <<"b", "a", "n~", "o", "s">>} -> <<"b", "a", "n~", "o", "s">>
          [] r \in {<<"c", "o", "c", "h">>, <<"c", "o", "c", "h", "e", "r", "a", "s">>} -> <<"c", "o", "c", "h">>
          [] OTHER -> r

\* area_kind, lines 145-155; "" stands for None
AreaKind(qualifier) ==
    LET q == RStripDots(Lower(Strip(qualifier)))
    IN  IF qualifier = <<>> THEN ""
        ELSE IF StartsWith(q, <<"t", "o", "t">>) THEN "square_meters_total"
        ELSE IF StartsWith(q, <<"c", "u", "b">>) THEN "square_meters_covered"
        ELSE IF StartsWith(q, <<"t", "e", "r", "r">>) THEN "square_meters_land"
        ELSE ""

\* FEATURE_UNIT_DICT.get(unit), lines 10-17; "" stands for None
FeatureUnitDict(unit) ==
    CASE unit = <<"m", "^2">> -> "square_meters_area"
      [] unit = <<"a", "m", "b">> -> "rooms"
      [] unit = <<"d", "o", "r", "m">> -> "bedrooms"
      [] unit = <<"b", "a", "n~", "o">> -> "bathrooms"
      [] unit = <<"b", "a", "n~", "o", "s">> -> "bathrooms"
      [] unit = <<"c", "o", "c", "h">> -> "parking"
      [] OTHER -> ""

\* lines 182-189: the base key of one match (the unit's own text when the
\* unit is unknown)
BaseKey(m) ==
    LET unit == NormalizeUnit(m.unit)
        key  == IF unit = <<"m", "^2">>
                THEN (IF AreaKind(m.qual) /= "" THEN AreaKind(m.qual) ELSE "square_meters_area")
                ELSE FeatureUnitDict(unit)
    IN  IF key /= "" THEN <<key>> ELSE unit

BaseFields == {"square_meters_area", "square_meters_total", "square_meters_covered",
               "square_meters_land", "rooms", "bedrooms", "bathrooms", "parking"}

\* lines 166-175
FreshAppearance == [b \in BaseFields |-> 0]

\* the key f'{base_key}_{idx}'
IndexedKey(base, idx) == base \o <<"_">> \o IntText(idx)

\* d[k] = v on a mapping kept as a set of [k, v] entries
DictSet(d, k, v) == {e \in d : e.k /= k} \cup {[k |-> k, v |-> v]}

DictKeys(d) == {e.k : e \in d}

\* lines 191-196: one match added to the call's [features, appearance]
FeatureStep(st, m) ==
    LET value == NormalizeNumber(m.value)
        base  == BaseKey(m)
        known == Len(base) = 1 /\ base[1] \in BaseFields
    IN  IF ~known
        THEN [features |-> DictSet(st.features, base, value), appearance |-> st.appearance]
        ELSE [features |-> DictSet(st.features, IndexedKey(base, st.appearance[base[1]]), value),
              appearance |-> [st.appearance EXCEPT ![base[1]] = st.appearance[base[1]] + 1]]

RECURSIVE FeatureLoop(_, _, _)
FeatureLoop(st, ms, j) == IF j > Len(ms) THEN st ELSE FeatureLoop(FeatureStep(st, ms[j]), ms, j + 1)

\* parse_features(text) as one call
ParseFeatures(text) ==
    FeatureLoop([features |-> {}, appearance |-> FreshAppearance],
                FindAllFeatures(text, Lower(text), 1), 1).features

\* d.get(k) on a mapping kept as a set of [k, v] entries with text values
DictGet(d, k) == IF k \in DictKeys(d) THEN Str((CHOOSE e \in d : e.k = k).v) ELSE None

\* --------------------------------------------------- feature texts (inputs)
\* the feature text of test_parse_features_parses_square_meters_and_abbreviations
TestFeatureText ==
    <<"7", "7", "1", " ", "m", "^2", " ", "t", "o", "t", ".", " ", "|", " ", "8", " ", "a", "m", "b", ".", " ", "|", " ", "4", " ", "d", "o", "r", "m", ".", " ", "|", " ", "3", " ", "b", "a", "n~", "o", "s", " ", "|", " ", "1", " ", "c", "o", "c", "h", ".">>

TokenTexts == {
    <<"1", ".", "2", "5", "0", ",", "5", " ", "M", "^2", " ", "C", "u", "b">>,
    <<"3", "0", " ", "m", "2">>,
    <<"1", "2", "0", "m", "^2", " ", "t", "e", "r", "r", "e", "n", "o">>,
    <<"8", " ", "a", "m", "b", ".">>,
    <<"3", " ", "b", "a", "n~", "o", "s">>,
    <<"1", " ", "b", "a", "n~", "o">>,
    <<"7", " ", "p", "i", "s", "o", "s">> }

RECURSIVE TextsOf(_)
TextsOf(n) ==
    IF n = 0 THEN {<<>>}
    ELSE LET shorter == TextsOf(n - 1)
         IN  shorter \cup {IF s = <<>> THEN tk ELSE s \o <<" ", "|", " ">> \o tk :
                              s \in shorter, tk \in TokenTexts}

FeatureTexts == TextsOf(MaxTokens) \cup {TestFeatureText}

\* ------------------------------------------------- parse_features, steps
FeaturesIdle ==
    /\ ftext = <<>> /\ fmatches = <<>> /\ fpos = 0
    /\ features_appearance = FreshAppearance /\ features = {}
    /\ freturned = <<>> /\ fpc = "idle"

FeaturesInit ==
    /\ ftext \in FeatureTexts
    /\ fmatches = <<>> /\ fpos = 0
    /\ features_appearance = FreshAppearance /\ features = {}
    /\ freturned = <<>> /\ fpc = "idle"

\* the call entry with the counters kept from the call before (counters
\* shared across calls)
ParseFeaturesEnterSharedCounters ==
    /\ fpc = "idle" /\ Len(freturned) < MaxCalls
    /\ fmatches' = FindAllFeatures(ftext, Lower(ftext), 1)
    /\ features' = {}
    /\ fpos' = 1
    /\ fpc' = "loop"
    /\ UNCHANGED <<ftext, freturned, features_appearance>>
    /\ UNCHANGED not_features_vars

\* lines 160-178: the call starts with its own counters and mapping
ParseFeaturesEnter ==
    /\ fpc = "idle" /\ Len(freturned) < MaxCalls
    /\ fmatches' = FindAllFeatures(ftext, Lower(ftext), 1)
    /\ features_appearance' = FreshAppearance
    /\ features' = {}
    /\ fpos' = 1
    /\ fpc' = "loop"
    /\ UNCHANGED <<ftext, freturned>>
    /\ UNCHANGED not_features_vars

\* lines 178-196: one match of the pattern
ParseFeaturesToken ==
    /\ fpc = "loop" /\ fpos <= Len(fmatches)
    /\ LET st == FeatureStep([features |-> features, appearance |-> features_appearance],
                              fmatches[fpos])
       IN  features' = st.features /\ features_appearance' = st.appearance
    /\ fpos' = fpos + 1
    /\ UNCHANGED <<ftext, fmatches, freturned, fpc>>
    /\ UNCHANGED not_features_vars

\* line 198
ParseFeaturesReturn ==
    /\ fpc = "loop" /\ fpos > Len(fmatches)
    /\ freturned' = Append(freturned, features)
    /\ fpc' = "idle"
    /\ UNCHANGED <<ftext, fmatches, fpos, features_appearance, features>>
    /\ UNCHANGED not_features_vars

\* ------------------------------------------------------------ _normalize_url
ZONAPROP_HOST == [scheme |-> "https", host |-> "www.zonaprop.com.ar"]

\* A URL text is kept by its parts: form "protorel" is //host/path, "path" is
\* /path, "relative" is path, "abs" is scheme://host/path; query tells
\* whether a query string or fragment follows the path.
Url(form, scheme, host, path, query) ==
    [t |-> "url", form |-> form, scheme |-> scheme, host |-> host, path |-> path, query |-> query]

\* lines 40-51, for a URL text (html.unescape raises TypeError on None)
NormalizeUrl(u) ==
    CASE u.form = "protorel" -> Url("abs", "https", u.host, u.path, FALSE)
      [] u.form \in {"path", "relative"} ->
             Url("abs", ZONAPROP_HOST.scheme, ZONAPROP_HOST.host, u.path, FALSE)
      [] u.form = "abs" -> Url("abs", u.scheme, u.host, u.path, FALSE)

\* ---------------------------------------------- the pattern \d+\.?\d+
\* the last position of the match that starts at digit position b, 0 when no
\* match starts there (a lone digit not followed by ".<digit>")
CountTokenEnd(s, b) ==
    LET e == DigitRunEnd(s, b)
    IN  IF e + 2 <= Len(s) /\ s[e + 1] = "." /\ IsDigit(s[e + 2]) THEN DigitRunEnd(s, e + 2)
        ELSE IF e > b THEN e
        ELSE 0

\* re.findall(r'\d+\.?\d+', s)[0] from position i on; None for the IndexError
RECURSIVE FirstCountToken(_, _)
FirstCountToken(s, i) ==
    LET b == NextDigit(s, i)
    IN  IF b = 0 THEN None
        ELSE IF CountTokenEnd(s, b) = 0 THEN FirstCountToken(s, b + 1)
        ELSE Str(SubSeq(s, b, CountTokenEnd(s, b)))

\* get_estates_quantity, lines 68-75, on the text of the first h1; None for
\* the IndexError of a text without a count
EstatesQuantityOf(h1) ==
    LET tok == FirstCountToken(h1, 1)
    IN  IF IsNone(tok) THEN None ELSE Num(IntOf(Replace(tok.s, ".", <<>>)), 1)

\* ------------------------------------------------- parse_currency_value
CurrencyMarks == << <<"U", "S", "D">>, <<"A", "R", "S">>, <<"$">> >>

\* re.findall(r'(USD)|(ARS)|(\$)', text)[0], its non-empty group; None for
\* the IndexError
RECURSIVE FirstCurrency(_, _)
FirstCurrency(s, i) ==
    IF i > Len(s) THEN None
    ELSE IF \E k \in 1..3 : MatchAt(s, i, CurrencyMarks[k])
    THEN Str(CurrencyMarks[CHOOSE k \in 1..3 : MatchAt(s, i, CurrencyMarks[k])])
    ELSE FirstCurrency(s, i + 1)

\* lines 104-113
ParseCurrencyValue(text) ==
    LET tok == FirstCountToken(text, 1)
        cur == FirstCurrency(text, 1)
    IN  IF IsNone(tok) \/ IsNone(cur) THEN [value |-> Str(text), type |-> None]
        ELSE [value |-> Num(IntOf(Replace(tok.s, ".", <<>>)), 1), type |-> cur]

\* ------------------------------------------------------------ parse_estate
\* node: [data_to_posting |-> URL text or None (no attribute),
\*        price |-> text of POSTING_CARD_PRICE or None (no such element),
\*        features |-> text of POSTING_CARD_FEATURES or None]
\* The card keeps the keys the export reads; the flat feature keys are the
\* entries of features, and link is the key line 242 adds.
ParseEstate(node) ==
    [url |-> node.data_to_posting,
     link |-> None,
     price_value |-> IF IsNone(node.price) THEN None ELSE ParseCurrencyValue(node.price.s).value,
     price_type |-> IF IsNone(node.price) THEN None ELSE ParseCurrencyValue(node.price.s).type,
     features |-> IF IsNone(node.features) THEN {} ELSE ParseFeatures(node.features.s)]

\* ---------------------------------------------------- parse_listing_detail
\* lines 196-224, for a fetch that returned the page
ParseListingDetail(page, url) ==
    LET merged == MergeAreas(ParseDetailAreasFromIconFeatures(page),
                             ParseDetailAreasFromHtml(page),
                             ParseDetailAreasFromJsonld(page.jsonld))
    IN  [link |-> NormalizeUrl(url), title |-> page.title,
         m2_total |-> merged.m2_total, m2_covered |-> merged.m2_covered,
         m2_land |-> merged.m2_land, detail_error |-> None]

\* line 256: the detail of a fetch that raised
FailedDetail(url) ==
    [link |-> NormalizeUrl(url), title |-> None,
     m2_total |-> None, m2_covered |-> None, m2_land |-> None,
     detail_error |-> Str(<<"E", "x", "c", "e", "p", "t", "i", "o", "n", ":", " ">>)]

\* ------------------------------------- export_search_to_excel, lines 259-290
\* float(price_value): a number as it is, a text by float(), None for the
\* ValueError
PriceValueNum(price_value) ==
    CASE IsNone(price_value) -> None
      [] price_value.t = "num" -> price_value
      [] price_value.t = "str" -> FloatOf(Strip(price_value.s))

TotalKey == <<"square_meters_total", "_", "0">>

RoomsKey == <<"rooms", "_", "0">>

\* line 268 with "or" read as "if not None"
DenominatorCoveredIfPresent(m2_covered, m2_total) ==
    IF ~IsNone(m2_covered) THEN m2_covered ELSE m2_total

\* line 268
Denominator(m2_covered, m2_total) == PyOr(m2_covered, m2_total)

\* lines 267-270
PrecioPorM2(price_value_num, denom) ==
    IF ~IsNone(price_value_num) /\ ~IsNone(denom) /\ Positive(denom)
    THEN PyDiv(price_value_num, denom)
    ELSE None

\* line 259 without the card's total as the fallback
RowM2TotalDetailOnly(card, detail) == detail.m2_total

\* line 259
RowM2Total(card, detail) == PyOr(detail.m2_total, CleanNumber(DictGet(card.features, TotalKey)))

\* the columns of the row that the areas, the price and the error decide
MergedRow(card, detail) ==
    LET m2_total   == RowM2Total(card, detail)
        m2_covered == detail.m2_covered
    IN  [link |-> detail.link,
         title |-> detail.title,
         price_value |-> card.price_value,
         price_type |-> card.price_type,
         m2_total |-> m2_total,
         m2_covered |-> m2_covered,
         m2_land |-> detail.m2_land,
         precio_por_m2 |-> PrecioPorM2(PriceValueNum(card.price_value),
                                       Denominator(m2_covered, m2_total)),
         rooms |-> CleanNumber(DictGet(card.features, RoomsKey)),
         detail_error |-> detail.detail_error]

\* ---------------------------------------------------------- sites (inputs)
\* web: [h1 |-> text of the first h1 of page 1,
\*       per_page |-> cards on a full listing page,
\*       actual |-> cards the site really lists,
\*       urlless |-> the card without a data-to-posting attribute (0: none),
\*       prices, feature_texts |-> the texts the cards carry, in rotation,
\*       detail_pages |-> the detail pages the listings have, in rotation]
Rotate(seq, n) == seq[((n - 1) % Len(seq)) + 1]

UrlOf(n) ==
    CASE n % 3 = 1 -> Url("path", "", "", n, TRUE)
      [] n % 3 = 2 -> Url("protorel", "", "www.zonaprop.com.ar", n, FALSE)
      [] OTHER -> Url("abs", "https", "www.zonaprop.com.ar", n, TRUE)

CardNode(w, n) ==
    [data_to_posting |-> IF n = w.urlless THEN None ELSE UrlOf(n),
     price |-> Rotate(w.prices, n),
     features |-> Rotate(w.feature_texts, n)]

\* the cards of listing page p
PageSize(w, p) ==
    LET left == w.actual - (p - 1) * w.per_page
    IN  IF left <= 0 THEN 0 ELSE IF left < w.per_page THEN left ELSE w.per_page

\* scrap_page, lines 41-47: the cards of page p, parsed in page order
ScrapPage(w, p) == [j \in 1..PageSize(w, p) |-> ParseEstate(CardNode(w, (p - 1) * w.per_page + j))]

DetailPageOf(w, link) == Rotate(w.detail_pages, link.path)

\* cards[: max_listings]
Limit(seq, limit) ==
    IF IsNone(limit) \/ limit.num >= Len(seq) THEN seq ELSE SubSeq(seq, 1, limit.num)

ListingFetch(p) == [kind |-> "listing", page |-> p]

DetailFetch(link) == [kind |-> "detail", link |-> link]

\* fetch_log entries: the fetch and how it ended ("pending" until it has)
Asked(log, fetch) == Append(log, [fetch |-> fetch, outcome |-> "pending"])

Ended(log, outcome) == [log EXCEPT ![Len(log)].outcome = outcome]

\* ------------------------------------------------- scrap_website, steps
\* lines 50-52 and the state of export_search_to_excel at its entry
CrawlStart ==
    /\ pc = "start"
    /\ page_number = 1 /\ estates = <<>> /\ estates_scraped = 0 /\ estates_quantity = 0
    /\ cards = <<>> /\ card_index = 0 /\ rows = <<>>
    /\ inflight = {} /\ fetch_log = <<>>

\* lines 65-66: get_estates_quantity asks for page 1
GetEstatesQuantityRequest ==
    /\ pc = "start"
    /\ inflight' = inflight \cup {ListingFetch(1)}
    /\ fetch_log' = Asked(fetch_log, ListingFetch(1))
    /\ pc' = "quantity_wait"
    /\ UNCHANGED <<web, max_listings, page_number, estates, estates_scraped,
                   estates_quantity, cards, card_index, rows>>
    /\ UNCHANGED not_crawl_vars

\* lines 67-75: the total is read off the h1; a h1 without a count raises
GetEstatesQuantityResponse ==
    /\ pc = "quantity_wait"
    /\ inflight' = inflight \ {ListingFetch(1)}
    /\ IF IsNone(EstatesQuantityOf(web.h1))
       THEN pc' = "raised" /\ UNCHANGED estates_quantity
       ELSE pc' = "loop" /\ estates_quantity' = EstatesQuantityOf(web.h1).num
    /\ fetch_log' = Ended(fetch_log, "returned")
    /\ UNCHANGED <<web, max_listings, page_number, estates, estates_scraped,
                   cards, card_index, rows>>
    /\ UNCHANGED not_crawl_vars

\* ScrapPageRequest with the loop test of line 54 read as >=: one page too many
ScrapPageRequestInclusive ==
    /\ pc = "loop"
    /\ estates_quantity >= estates_scraped
    /\ page_number <= MaxPage
    /\ inflight' = inflight \cup {ListingFetch(page_number)}
    /\ fetch_log' = Asked(fetch_log, ListingFetch(page_number))
    /\ pc' = "page_wait"
    /\ UNCHANGED <<web, max_listings, page_number, estates, estates_scraped,
                   estates_quantity, cards, card_index, rows>>
    /\ UNCHANGED not_crawl_vars

\* lines 54-56 and 31-39: the loop test holds and scrap_page asks for the page
ScrapPageRequest ==
    /\ pc = "loop"
    /\ estates_quantity > estates_scraped
    /\ page_number <= MaxPage
    /\ inflight' = inflight \cup {ListingFetch(page_number)}
    /\ fetch_log' = Asked(fetch_log, ListingFetch(page_number))
    /\ pc' = "page_wait"
    /\ UNCHANGED <<web, max_listings, page_number, estates, estates_scraped,
                   estates_quantity, cards, card_index, rows>>
    /\ UNCHANGED not_crawl_vars

\* lines 41-47 and 56-58: the page's cards are parsed and appended
ScrapPageResponse ==
    /\ pc = "page_wait"
    /\ inflight' = inflight \ {ListingFetch(page_number)}
    /\ estates' = estates \o ScrapPage(web, page_number)
    /\ page_number' = page_number + 1
    /\ estates_scraped' = Len(estates')
    /\ pc' = "loop"
    /\ fetch_log' = Ended(fetch_log, "returned")
    /\ UNCHANGED <<web, max_listings, estates_quantity, cards, card_index, rows>>
    /\ UNCHANGED not_crawl_vars

\* browser.get_text raises on a listing page: nothing catches it
ListingFetchRaises ==
    /\ pc \in {"quantity_wait", "page_wait"}
    /\ inflight' = {}
    /\ pc' = "raised"
    /\ fetch_log' = Ended(fetch_log, "raised")
    /\ UNCHANGED <<web, max_listings, page_number, estates, estates_scraped,
                   estates_quantity, cards, card_index, rows>>
    /\ UNCHANGED not_crawl_vars

\* ScrapWebsiteReturn with the result cut down to the advertised total
ScrapWebsiteReturnTrimmed ==
    /\ pc = "loop"
    /\ ~(estates_quantity > estates_scraped)
    /\ cards' = SubSeq(estates, 1, estates_quantity)
    /\ pc' = "normalize"
    /\ UNCHANGED <<web, max_listings, page_number, estates, estates_scraped,
                   estates_quantity, card_index, rows, inflight, fetch_log>>
    /\ UNCHANGED not_crawl_vars

\* lines 54 and 61: the loop test fails and the cards are returned (line 237)
ScrapWebsiteReturn ==
    /\ pc = "loop"
    /\ ~(estates_quantity > estates_scraped)
    /\ cards' = estates
    /\ pc' = "normalize"
    /\ UNCHANGED <<web, max_listings, page_number, estates, estates_scraped,
                   estates_quantity, card_index, rows, inflight, fetch_log>>
    /\ UNCHANGED not_crawl_vars

\* ------------------------------------------ export_search_to_excel, steps
\* lines 240-247: every card gets its link (a card whose url is None makes
\* _normalize_url raise, outside any try), then the limit is applied
NormalizeCards ==
    /\ pc = "normalize"
    /\ IF \E j \in 1..Len(cards) : IsNone(cards[j].url)
       THEN pc' = "raised" /\ UNCHANGED <<cards, card_index, rows>>
       ELSE /\ cards' = Limit([j \in 1..Len(cards) |->
                                  [cards[j] EXCEPT !.link = NormalizeUrl(cards[j].url)]],
                              max_listings)
            /\ card_index' = 1
            /\ rows' = <<>>
            /\ pc' = "rows"
    /\ UNCHANGED <<web, max_listings, page_number, estates, estates_scraped,
                   estates_quantity, inflight, fetch_log>>
    /\ UNCHANGED not_crawl_vars

\* line 249
LinkOf(card) == PyOr(card.link, card.url)

\* lines 248-254 and 197-198: the next card; one without a link is skipped,
\* else its detail page is asked for
DetailRequest ==
    /\ pc = "rows"
    /\ card_index <= Len(cards)
    /\ IF ~Truthy(LinkOf(cards[card_index]))
       THEN card_index' = card_index + 1 /\ UNCHANGED <<pc, inflight, fetch_log>>
       ELSE /\ inflight' = inflight \cup {DetailFetch(NormalizeUrl(LinkOf(cards[card_index])))}
            /\ fetch_log' = Asked(fetch_log, DetailFetch(NormalizeUrl(LinkOf(cards[card_index]))))
            /\ pc' = "detail_wait"
            /\ UNCHANGED card_index
    /\ UNCHANGED <<web, max_listings, page_number, estates, estates_scraped,
                   estates_quantity, cards, rows>>
    /\ UNCHANGED not_crawl_vars

\* lines 199-224 and 259-293: the page came; its row is appended
DetailResponse ==
    /\ pc = "detail_wait"
    /\ LET link == LinkOf(cards[card_index])
       IN  /\ inflight' = inflight \ {DetailFetch(NormalizeUrl(link))}
           /\ rows' = Append(rows, MergedRow(cards[card_index],
                                 ParseListingDetail(DetailPageOf(web, NormalizeUrl(link)), link)))
    /\ card_index' = card_index + 1
    /\ pc' = "rows"
    /\ fetch_log' = Ended(fetch_log, "returned")
    /\ UNCHANGED <<web, max_listings, page_number, estates, estates_scraped,
                   estates_quantity, cards>>
    /\ UNCHANGED not_crawl_vars

\* DetailFetchRaises with the failed listing dropped instead of recorded
DetailFetchRaisesSkipsRow ==
    /\ pc = "detail_wait"
    /\ inflight' = {}
    /\ card_index' = card_index + 1
    /\ pc' = "rows"
    /\ fetch_log' = Ended(fetch_log, "raised")
    /\ UNCHANGED <<web, max_listings, page_number, estates, estates_scraped,
                   estates_quantity, cards, rows>>
    /\ UNCHANGED not_crawl_vars

\* DetailFetchRaises with the failed rows collected ahead of the others
DetailFetchRaisesRowFirst ==
    /\ pc = "detail_wait"
    /\ LET link == LinkOf(cards[card_index])
       IN  /\ inflight' = inflight \ {DetailFetch(NormalizeUrl(link))}
           /\ rows' = <<MergedRow(cards[card_index], FailedDetail(link))>> \o rows
    /\ card_index' = card_index + 1
    /\ pc' = "rows"
    /\ fetch_log' = Ended(fetch_log, "raised")
    /\ UNCHANGED <<web, max_listings, page_number, estates, estates_scraped,
                   estates_quantity, cards>>
    /\ UNCHANGED not_crawl_vars

\* lines 255-256 and 259-293: the fetch raised; the row is appended all the same
DetailFetchRaises ==
    /\ pc = "detail_wait"
    /\ LET link == LinkOf(cards[card_index])
       IN  /\ inflight' = inflight \ {DetailFetch(NormalizeUrl(link))}
           /\ rows' = Append(rows, MergedRow(cards[card_index], FailedDetail(link)))
    /\ card_index' = card_index + 1
    /\ pc' = "rows"
    /\ fetch_log' = Ended(fetch_log, "raised")
    /\ UNCHANGED <<web, max_listings, page_number, estates, estates_scraped,
                   estates_quantity, cards>>
    /\ UNCHANGED not_crawl_vars

\* lines 295-302: the loop is over and the rows are written
ExportDone ==
    /\ pc = "rows"
    /\ card_index > Len(cards)
    /\ pc' = "done"
    /\ UNCHANGED <<web, max_listings, page_number, estates, estates_scraped,
                   estates_quantity, cards, card_index, rows, inflight, fetch_log>>
    /\ UNCHANGED not_crawl_vars

\* ------------------------------------------------------------ runs (inputs)
\* a count as a h1 writes it, at least two digits
CountText(n) == (IF n < 10 THEN <<"0">> ELSE <<>>) \o IntText(n) \o <<" ", "C", "a", "s", "a", "s">>

PriceUSD == Str(<<"U", "S", "D", " ", "1", "5", "0", ".", "0", "0", "0">>)
PriceConsultar == Str(<<"C", "o", "n", "s", "u", "l", "t", "a", "r", " ", "p", "r", "e", "c", "i", "o">>)
PriceNoCurrency == Str(<<"1", "5", "0", "0", "0", "0">>)
PriceDotNoCurrency == Str(<<"1", "5", "0", ".", "0", "0", "0">>)
PriceOneDigit == Str(<<"U", "S", "D", " ", "5">>)

PriceTexts == {None, PriceUSD, PriceConsultar, PriceNoCurrency, PriceDotNoCurrency, PriceOneDigit}

FeaturesTotalRooms == Str(<<"5", "0", " ", "m", "^2", " ", "t", "o", "t", ".", " ", "|", " ", "3", " ", "a", "m", "b", ".">>)
FeaturesZeroTotal == Str(<<"0", " ", "m", "^2", " ", "t", "o", "t", ".">>)
FeaturesRooms == Str(<<"3", " ", "a", "m", "b", ".">>)

CardFeatureTexts == {None, FeaturesTotalRooms, FeaturesZeroTotal, FeaturesRooms}

Casa == Str(<<"C", "a", "s", "a">>)

\* a detail page with icon items for total and covered, and one with no area
PageWithAreas ==
    [title |-> Casa,
     icons |-> <<IconItem("icon-stotal", <<"9", "0">>), IconItem("icon-scubierta", <<"6", "0">>)>>,
     blocks |-> <<>>, jsonld |-> <<>>]

PageWithoutAreas == [title |-> Casa, icons |-> <<>>, blocks |-> <<>>, jsonld |-> <<>>]

\* detail pages whose total and covered areas are absent, 0 or MaxArea, by
\* icon or by JSON-LD
RowIconLists ==
    {tot \o cov :
        tot \in {<<>>} \cup {<<IconItem("icon-stotal", IntText(a))>> : a \in {0, MaxArea}},
        cov \in {<<>>} \cup {<<IconItem("icon-scubierta", IntText(a))>> : a \in {0, MaxArea}}}

RowJsonBlocks ==
    {<<>>, <<JArea("floorSize", Num(0, 1))>>, <<JArea("lotSize", Num(MaxArea, 1))>>}

RowDetailPages == [title : {Casa}, icons : RowIconLists, blocks : {<<>>}, jsonld : RowJsonBlocks]

Limits == {None} \cup {Num(l, 1) : l \in 0..MaxLimit}

\* sites of a few cards: every total, page size and real number of cards near
\* the total, every place of a card without URL, every limit; and h1 texts
\* with a lone digit, a grouping dot and no count
SmallRuns ==
    {[web |-> [h1 |-> h, per_page |-> k, actual |-> a, urlless |-> u,
               prices |-> <<PriceUSD, PriceConsultar, PriceNoCurrency>>,
               feature_texts |-> <<FeaturesTotalRooms, FeaturesRooms>>,
               detail_pages |-> <<PageWithAreas, PageWithoutAreas>>],
      max_listings |-> l] :
        h \in {CountText(n) : n \in 0..MaxTotal}
              \cup {<<"3", " ", "C", "a", "s", "a", "s">>, <<"0", ".", "2">>, <<"C", "a", "s", "a", "s">>},
        k \in 1..MaxPerPage, a \in 0..(MaxTotal + 1), u \in 0..(MaxTotal + 1), l \in Limits}

\* sites of one card: every price text, feature text and detail page
RowRuns ==
    {[web |-> [h1 |-> CountText(1), per_page |-> 1, actual |-> 1, urlless |-> 0,
               prices |-> <<p>>, feature_texts |-> <<f>>, detail_pages |-> <<d>>],
      max_listings |-> None] :
        p \in PriceTexts, f \in CardFeatureTexts, d \in RowDetailPages}

\* sites of the size of real ones: 45 or 20 advertised and 20 cards a page,
\* exported under a limit
LargeRuns ==
    {[web |-> [h1 |-> CountText(n), per_page |-> 20, actual |-> n, urlless |-> 0,
               prices |-> <<PriceUSD>>, feature_texts |-> <<FeaturesTotalRooms>>,
               detail_pages |-> <<PageWithAreas>>],
      max_listings |-> Num(l, 1)] :
        n \in {20, 45}, l \in 0..MaxLimit}

Runs == SmallRuns \cup RowRuns \cup LargeRuns

NoWeb == [h1 |-> <<>>, per_page |-> 1, actual |-> 0, urlless |-> 0,
          prices |-> <<None>>, feature_texts |-> <<None>>, detail_pages |-> <<NoSoup>>]

CrawlIdle ==
    /\ web = NoWeb /\ max_listings = None
    /\ pc = "idle"
    /\ page_number = 1 /\ estates = <<>> /\ estates_scraped = 0 /\ estates_quantity = 0
    /\ cards = <<>> /\ card_index = 0 /\ rows = <<>>
    /\ inflight = {} /\ fetch_log = <<>>

CrawlInit ==
    /\ \E r \in Runs : web = r.web /\ max_listings = r.max_listings
    /\ CrawlStart

\* ------------------------------------- scrap_website, the loop without end
\* page_number grows by one on every pass of the loop (line 57) and nothing
\* bounds it.  Every site of Runs has its last card before page MaxPage, so
\* the pages from MaxPage on are all empty and the loop cannot tell them
\* apart: they are kept as the one page MaxPage.
PageClass(p) == IF p > MaxPage THEN MaxPage ELSE p

\* lines 54-56 and 31-39, with no log kept of the fetch
LoopScrapPageRequest ==
    /\ pc = "loop"
    /\ estates_quantity > estates_scraped
    /\ inflight' = inflight \cup {ListingFetch(page_number)}
    /\ pc' = "page_wait"
    /\ UNCHANGED <<web, max_listings, page_number, estates, estates_scraped,
                   estates_quantity, cards, card_index, rows, fetch_log>>
    /\ UNCHANGED not_crawl_vars

\* lines 41-47 and 56-58, with no log kept of the fetch
LoopScrapPageResponse ==
    /\ pc = "page_wait"
    /\ inflight' = inflight \ {ListingFetch(page_number)}
    /\ estates' = estates \o ScrapPage(web, page_number)
    /\ page_number' = PageClass(page_number + 1)
    /\ estates_scraped' = Len(estates')
    /\ pc' = "loop"
    /\ UNCHANGED <<web, max_listings, estates_quantity, cards, card_index, rows, fetch_log>>
    /\ UNCHANGED not_crawl_vars

\* ---------------------------------------------------------- specifications
DetailNext == ExtractJsonld \/ ExtractIcons \/ ExtractLabels \/ MergeDetail

\* parse_listing_detail on every page of the input sets
InitDetail == DetailInit /\ FeaturesIdle /\ CrawlIdle

SpecDetail == InitDetail /\ [][DetailNext]_vars

FeaturesNext == ParseFeaturesEnter \/ ParseFeaturesToken \/ ParseFeaturesReturn

\* parse_features called MaxCalls times on every feature text of the input set
InitFeatures == FeaturesInit /\ DetailIdle /\ CrawlIdle

SpecFeatures == InitFeatures /\ [][FeaturesNext]_vars

Init == CrawlInit /\ DetailIdle /\ FeaturesIdle

Next ==
    \/ GetEstatesQuantityRequest
    \/ GetEstatesQuantityResponse
    \/ ScrapPageRequest
    \/ ScrapPageResponse
    \/ ListingFetchRaises
    \/ ScrapWebsiteReturn
    \/ NormalizeCards
    \/ DetailRequest
    \/ DetailResponse
    \/ DetailFetchRaises
    \/ ExportDone

\* export_search_to_excel on every run of the input set
Spec == Init /\ [][Next]_vars

\* ------------------------------------------------------ claims C4 and C8
PositiveOrNull(rec) == \A f \in AreaFields : IsNone(rec[f]) \/ Positive(rec[f])

\* C8: every area record of the icon, labeled-text and structured-metadata
\* extractors, and the merged record, has each field null or strictly
\* positive; a source value that parses to 0 never appears as a field.
C8_AreasNullOrPositive ==
    /\ PositiveOrNull(areas_jsonld)
    /\ PositiveOrNull(areas_icons)
    /\ PositiveOrNull(areas_labels)
    /\ PositiveOrNull(areas)

\* the first non-null of a, b, c, null when all are null
FirstNonNull(a, b, c) == IF ~IsNone(a) THEN a ELSE IF ~IsNone(b) THEN b ELSE c

\* C4: for each area field, the merged value is the first non-null value in
\* the order icon, labeled-text, structured-metadata, whatever the three are
\* (null, zero or positive), and is null only when all three are null.
C4_MergeIsFirstNonNull ==
    dpc = "merged" =>
        \A f \in AreaFields :
            areas[f] = FirstNonNull(areas_icons[f], areas_labels[f], areas_jsonld[f])


\* ------------------------------------------------------------- claim C6
\* the recognizable tokens of the text of the run, left to right
Recognized == FindAllFeatures(ftext, Lower(ftext), 1)

\* the tokens before the j-th with the j-th token's base field
EarlierSameField(ms, j) == Cardinality({i \in 1..(j - 1) : BaseKey(ms[i]) = BaseKey(ms[j])})

C6_TestMapping ==
    { [k |-> <<"square_meters_total", "_", "0">>, v |-> <<"7", "7", "1">>],
      [k |-> <<"rooms", "_", "0">>, v |-> <<"8">>],
      [k |-> <<"bedrooms", "_", "0">>, v |-> <<"4">>],
      [k |-> <<"bathrooms", "_", "0">>, v |-> <<"3">>],
      [k |-> <<"parking", "_", "0">>, v |-> <<"1">>] }

\* C6: a text with N recognizable tokens gives exactly N keys; the key of the
\* j-th token is <field>_<i> with i the number of earlier tokens of the same
\* base field; every call on the same text returns the same mapping (the
\* counters start at 0 on every call); the test's text gives the test's keys.
C6_IndexedKeysPerCall ==
    \A c \in 1..Len(freturned) :
        /\ Cardinality(DictKeys(freturned[c])) = Len(Recognized)
        /\ \A j \in 1..Len(Recognized) :
               IndexedKey(BaseKey(Recognized[j]), EarlierSameField(Recognized, j))
                   \in DictKeys(freturned[c])
        /\ freturned[c] = freturned[1]
        /\ ftext = TestFeatureText => freturned[c] = C6_TestMapping

\* the second call has returned on a text that repeats a base field
C6_RepeatedFieldSecondCall ==
    /\ Len(freturned) = 2
    /\ Len(Recognized) = 3
    /\ {<<"bathrooms", "_", "0">>, <<"bathrooms", "_", "1">>, <<"rooms", "_", "0">>}
           = DictKeys(freturned[2])

\* ------------------------------------------------------ claims C1 and C9
\* the pages of the listing fetches asked for so far, in the order asked
ListingPages ==
    LET asked == SelectSeq(fetch_log, LAMBDA e : e.fetch.kind = "listing")
    IN  [i \in 1..Len(asked) |-> asked[i].fetch.page]

CeilDiv(n, k) == (n + k - 1) \div k

\* scrap_website has returned
Crawled == pc \in {"normalize", "rows", "detail_wait", "done"}

\* the site lists at least the cards its h1 advertises, per_page to a page
DeliversTotal == web.actual >= estates_quantity

\* C1 as stated: a crawl of a site advertising T cards, k to a page, makes
\* ceil(T/k) listing fetches in all, the one that reads the total included,
\* and never asks for page ceil(T/k)+1.
C1_FetchesAreCeil ==
    (Crawled /\ DeliversTotal) =>
        /\ Len(ListingPages) = CeilDiv(estates_quantity, web.per_page)
        /\ \A i \in 1..Len(ListingPages) :
               ListingPages[i] # CeilDiv(estates_quantity, web.per_page) + 1

\* C1, amended: the crawl makes ceil(T/k)+1 listing fetches: page 1 once to
\* read the total, then pages 1..ceil(T/k) once each in ascending order; the
\* loop never asks for a page beyond ceil(T/k).
C1_FetchesAreCeilPlusOne ==
    (Crawled /\ DeliversTotal) =>
        /\ Len(ListingPages) = CeilDiv(estates_quantity, web.per_page) + 1
        /\ ListingPages[1] = 1
        /\ \A i \in 2..Len(ListingPages) : ListingPages[i] = i - 1

\* 45 advertised, 20 to a page: page 1 twice, then pages 2 and 3
C1_FortyFiveByTwenty ==
    /\ Crawled
    /\ estates_quantity = 45 /\ web.per_page = 20 /\ web.actual = 45
    /\ ListingPages = <<1, 1, 2, 3>>

RECURSIVE PagesUpTo(_, _)
\* the cards of pages 1..n, in page order
PagesUpTo(w, n) == IF n = 0 THEN <<>> ELSE PagesUpTo(w, n - 1) \o ScrapPage(w, n)

\* C9: scrap_website returns the cards of pages 1..n, concatenated in page
\* order and not trimmed, n being the first page after which the running
\* total reaches the advertised total; the result is at least as long as the
\* total and exceeds it by less than the size of page n.
C9_PagesConcatenatedUntrimmed ==
    pc = "normalize" =>
        LET n == page_number - 1
        IN  /\ cards = PagesUpTo(web, n)
            /\ Len(cards) >= estates_quantity
            /\ \A m \in 0..(n - 1) : Len(PagesUpTo(web, m)) < estates_quantity
            /\ n >= 1 => Len(cards) - estates_quantity < PageSize(web, n)

\* the last page overshoots the advertised total and is kept whole
C9_OvershootKept ==
    /\ pc = "normalize"
    /\ page_number > 2
    /\ Len(cards) > estates_quantity

\* ----------------------------------------------------- claims C2 and C10
\* the detail fetches that have ended, in the order asked
DetailsEnded ==
    SelectSeq(fetch_log, LAMBDA e : e.fetch.kind = "detail" /\ e.outcome # "pending")

\* the row loop of export_search_to_excel is running or over
InRows == pc \in {"rows", "detail_wait", "done"}

\* C2: with no max_listings limit, whichever detail fetches raise, one row is
\* appended per card (as many rows as cards once the loop is over), the loop
\* goes on after a failure, and a row has a non-null detail_error exactly
\* when its detail fetch raised.
C2_OneRowPerCard ==
    (InRows /\ max_listings = None) =>
        /\ Len(rows) = Len(DetailsEnded)
        /\ Len(rows) = card_index - 1
        /\ pc = "done" => Len(rows) = Len(cards) /\ Len(cards) = Len(estates)
        /\ \A i \in 1..Len(rows) :
               /\ rows[i].link = DetailsEnded[i].fetch.link
               /\ ~IsNone(rows[i].detail_error) <=> DetailsEnded[i].outcome = "raised"

\* a failed fetch followed by a successful one, all cards exported
C2_FailureThenSuccess ==
    /\ pc = "done" /\ max_listings = None
    /\ Len(rows) >= 3
    /\ ~IsNone(rows[1].detail_error)
    /\ IsNone(rows[2].detail_error)
    /\ ~IsNone(rows[3].detail_error)

\* the link of the n-th card the site lists
DiscoveredLink(n) == NormalizeUrl(CardNode(web, n).data_to_posting)

\* C10: fetches are one at a time and in order: the listing pages in
\* ascending page number before any detail page, then the detail pages in
\* the order the cards were found, never two fetches in flight; the i-th row
\* belongs to the i-th card found, whichever detail fetches fail.
C10_SequentialInDiscoveryOrder ==
    /\ Cardinality(inflight) <= 1
    /\ \A i \in 1..(Len(fetch_log) - 1) :
           /\ fetch_log[i].outcome # "pending"
           /\ fetch_log[i].fetch.kind = "detail" => fetch_log[i + 1].fetch.kind = "detail"
    /\ \A i \in 1..(Len(ListingPages) - 1) : ListingPages[i] <= ListingPages[i + 1]
    /\ LET asked == SelectSeq(fetch_log, LAMBDA e : e.fetch.kind = "detail")
       IN  \A i \in 1..Len(asked) : asked[i].fetch.link = DiscoveredLink(i)
    /\ InRows => \A i \in 1..Len(rows) : rows[i].link = DiscoveredLink(i)

\* two listing pages crawled, three rows, the second of a failed fetch
C10_TwoPagesFailureInTheMiddle ==
    /\ pc = "done"
    /\ page_number >= 3
    /\ Len(rows) >= 3
    /\ IsNone(rows[1].detail_error)
    /\ ~IsNone(rows[2].detail_error)
    /\ IsNone(rows[3].detail_error)

\* ------------------------------------------------------------- claim C3
\* C3 as stated: the row of a failed detail fetch has m2_total, m2_covered
\* and m2_land null, whatever the card carries.
C3_FailedRowAreasNull ==
    InRows =>
        \A i \in 1..Len(rows) :
            ~IsNone(rows[i].detail_error) =>
                IsNone(rows[i].m2_total) /\ IsNone(rows[i].m2_covered) /\ IsNone(rows[i].m2_land)

\* C3, amended: the row of a failed detail fetch has m2_covered and m2_land
\* null, and its m2_total is the number read off the card's
\* square_meters_total_0 (null when the card has none or it is not a number).
C3_FailedRowTotalFromCard ==
    InRows =>
        \A i \in 1..Len(rows) :
            ~IsNone(rows[i].detail_error) =>
                /\ IsNone(rows[i].m2_covered) /\ IsNone(rows[i].m2_land)
                /\ rows[i].m2_total = CleanNumber(DictGet(cards[i].features, TotalKey))

\* a failed fetch for a card that carries a total of 50
C3_FailedRowWithCardTotal ==
    /\ InRows
    /\ \E i \in 1..Len(rows) :
           /\ ~IsNone(rows[i].detail_error)
           /\ rows[i].m2_total = Num(50, 1)

\* ------------------------------------------------------------- claim C5
\* the quotient the row must carry for price p and denominator d
Quotient(p, d) ==
    IF ~IsNone(p) /\ ~IsNone(d) /\ Positive(d) THEN PyDiv(p, d) ELSE None

\* C5 as stated: precio_por_m2 is price_value / d with d = m2_covered when
\* non-null, else m2_total, exactly when price_value is a number and d is
\* non-null and positive; a raw-text price and m2_covered = 0 give null.
C5_PrecioByCoveredIfPresent ==
    InRows =>
        \A i \in 1..Len(rows) :
            LET r == rows[i]
                p == IF ~IsNone(r.price_value) /\ r.price_value.t = "num"
                     THEN r.price_value ELSE None
                d == IF ~IsNone(r.m2_covered) THEN r.m2_covered ELSE r.m2_total
            IN  r.precio_por_m2 = Quotient(p, d)

\* C5, amended: d is m2_covered when it is non-null and not 0, else m2_total;
\* the price is price_value when a number, and the number float() reads off
\* it when it is a text that float() accepts; precio_por_m2 is price / d
\* exactly when there is such a price and d is non-null and positive.
C5_PrecioByCoveredIfNonZero ==
    InRows =>
        \A i \in 1..Len(rows) :
            LET r == rows[i]
                p == CASE IsNone(r.price_value) -> None
                       [] r.price_value.t = "num" -> r.price_value
                       [] OTHER -> FloatOf(Strip(r.price_value.s))
                d == IF ~IsNone(r.m2_covered) /\ r.m2_covered # Num(0, 1)
                     THEN r.m2_covered ELSE r.m2_total
            IN  r.precio_por_m2 = Quotient(p, d)

\* a row with m2_covered = 0 priced by its m2_total
C5_ZeroCoveredPricedByTotal ==
    /\ InRows
    /\ \E i \in 1..Len(rows) :
           /\ rows[i].m2_covered = Num(0, 1)
           /\ ~IsNone(rows[i].m2_total)
           /\ ~IsNone(rows[i].precio_por_m2)

\* ------------------------------------------------------------- claim C7
\* the cards found that carry a URL, in the order found
RECURSIVE WithUrl(_)
WithUrl(seq) ==
    IF seq = <<>> THEN <<>>
    ELSE (IF IsNone(seq[1].url) THEN <<>> ELSE <<seq[1]>>) \o WithUrl(Tail(seq))

\* C7: a card without its URL attribute is left out and nothing else: the
\* run is not aborted by it, and every other card gets its row.
C7_UrlLessCardOnlyExcluded ==
    /\ ~(pc = "raised" /\ \E j \in 1..Len(cards) : IsNone(cards[j].url))
    /\ (pc = "done" /\ max_listings = None) =>
           /\ Len(rows) = Len(WithUrl(estates))
           /\ \A i \in 1..Len(rows) : rows[i].link = NormalizeUrl(WithUrl(estates)[i].url)

\* ------------------------------------------------------------ claim C11
LoopNext ==
    \/ GetEstatesQuantityRequest
    \/ GetEstatesQuantityResponse
    \/ LoopScrapPageRequest
    \/ LoopScrapPageResponse
    \/ ScrapWebsiteReturn

\* sites of a few cards with a URL and nothing else: every total, page size and real
\* number of cards near the total; a h1 without a count
LoopRuns ==
    {[web |-> [h1 |-> h, per_page |-> k, actual |-> a, urlless |-> 0,
               prices |-> <<None>>, feature_texts |-> <<None>>,
               detail_pages |-> <<PageWithoutAreas>>],
      max_listings |-> None] :
        h \in {CountText(n) : n \in 0..MaxTotal} \cup {<<"C", "a", "s", "a", "s">>},
        k \in 1..MaxPerPage, a \in 0..(MaxTotal + 1)}

LoopInit ==
    /\ \E r \in LoopRuns : web = r.web /\ max_listings = r.max_listings
    /\ CrawlStart

InitLoop == LoopInit /\ DetailIdle /\ FeaturesIdle

\* scrap_website on every run of the input set, every fetch returning its
\* page; the program keeps running while it has a next step
SpecLoop == InitLoop /\ [][LoopNext]_vars /\ WF_vars(LoopNext)

\* C11: scrap_website terminates whatever the total and the pages: the loop
\* is left in the end (the cards are returned, or the h1 without a count has
\* raised), also when a page gives no card while the running total is below
\* the total.
C11_ScrapWebsiteTerminates == <>(pc \in {"normalize", "raised"})

====
